---- MODULE Spec2Model ----
(***************************************************************************)
(* A model of class Args (src/Args.hpp): the registry of unary and keyword *)
(* arguments, the separator string, and processArgs, the loop that         *)
(* classifies the tokens of argv and accumulates Error objects.            *)
(*                                                                         *)
(* A std::string or C string is a sequence of one-character strings:       *)
(* "k=x" is <<"k", "=", "x">>.  A null "const char *" is NULL.             *)
(* Vectors are sequences; the code's 0-based index i is i + 1 here.        *)
(***************************************************************************)
EXTENDS Integers, Sequences, FiniteSets, TLC

VARIABLES
    _seps,                  \* std::string _seps
    _exec_name,             \* std::string _exec_name
    _unary_args,            \* std::vector<std::string>
    _unary_arg_abbrs,       \* std::vector<std::string>
    _unary_args_defined,    \* std::vector<bool>
    _keyword_args,          \* std::vector<std::string>
    _keyword_arg_abbrs,     \* std::vector<std::string>
    _keyword_args_defined,  \* std::vector<bool>
    _keyword_arg_values,    \* std::vector<std::string>
    _errors,                \* std::vector<Error*>, as the objects pointed to
    _redefinition_is_error, \* bool
    pc,                     \* "idle", "parsing" (inside processArgs), "thrown", "crashed"
    argv,                   \* processArgs' parameter argv (argc is its length)
    ai,                     \* processArgs' local ai
    last,                   \* the last call made on the object and how it ended
    calls,                  \* the number of processArgs calls made so far
    snap                    \* what the previous processArgs call was given and left

registry == <<_unary_args, _unary_arg_abbrs, _keyword_args, _keyword_arg_abbrs>>

results == <<_unary_args_defined, _keyword_args_defined, _keyword_arg_values, _errors>>

frame == <<argv, ai>>

vars == <<_seps, _exec_name, registry, results, _redefinition_is_error, pc, frame, last, calls, snap>>

-----------------------------------------------------------------------------
(* Bounds of the exploration.                                              *)

\* Most argument specs (unary and keyword together) a registry is grown to.
MaxSpecs == 2

\* Longest argv (argc) handed to processArgs by ParseSpec.
MaxArgc == 5

\* Most processArgs calls made on one object by Spec.
MaxCalls == 2

-----------------------------------------------------------------------------
(* Strings.                                                                *)

\* A null pointer passed where a C string is expected (abbr = NULL).
NULL == <<"NULL">>

\* std::string::find(char): the 1-based position of the first c in s, 0 for npos.
find(s, c) ==
    IF \E p \in 1..Len(s) : s[p] = c
    THEN CHOOSE p \in 1..Len(s) : s[p] = c /\ \A q \in 1..(p - 1) : s[q] # c
    ELSE 0

\* s.find(c) != std::string::npos
contains(s, c) == find(s, c) # 0

\* std::string::substr(0, pos) with pos the 0-based position find returned.
substrBefore(s, p) == SubSeq(s, 1, p - 1)

\* std::string::substr(pos + 1, npos).
substrAfter(s, p) == SubSeq(s, p + 1, Len(s))

\* The loops "for ci over _seps: if (str.find(c) != npos)": some separator is in s.
containsSep(s, seps) == \E ci \in 1..Len(seps) : contains(s, seps[ci])

\* What comparing a std::string with a null char pointer may do: the behaviour
\* is undefined.  The read of address 0 faults ("crash"), or the page at 0 reads
\* as an empty C string ("empty"), or the comparison yields false ("unequal").
NullCompareOutcomes == {"crash", "empty", "unequal"}

\* operator==(const std::string&, const char*), with the outcome ub when p is null.
strEq(s, p, ub) ==
    IF p = NULL THEN (ub = "empty" /\ s = <<>>) ELSE s = p


-----------------------------------------------------------------------------
(* Error objects: the tag, the string the object carries (_arg, _key or    *)
(* _unary_arg) and, for the two redefinition errors, _count.               *)

\* NoValueForKey constructed with the tag of UnrecognizedArg.
NoValueForKeyWrongTag(key) == [type |-> "UNRECOGNIZED_ARG", str |-> key, count |-> 0]

UnrecognizedArg(arg) == [type |-> "UNRECOGNIZED_ARG", str |-> arg, count |-> 0]

NoValueForKey(key) == [type |-> "NO_VALUE_FOR_KEY", str |-> key, count |-> 0]

RedefinitionOfKey(key) == [type |-> "REDEFINITION_OF_KEY", str |-> key, count |-> 2]

RedefinitionOfUnaryArg(unary_arg) == [type |-> "REDEFINITION_OF_UNARY_ARG", str |-> unary_arg, count |-> 2]

\* RedefinitionOfKey::addCount and RedefinitionOfUnaryArg::addCount.
addCount(e) == [e EXCEPT !.count = @ + 1]

-----------------------------------------------------------------------------
(* The registry: addKeywordArg, addUnaryArg, setSepString.                 *)

\* One of the two "for i" loops of addKeywordArg / addUnaryArg from index i on:
\* the four comparisons in the code's order.  The comparisons with abbr are
\* comparisons with a null pointer when the abbreviation is left out.
\* scanArgs without "if (abbrs[i] == arg)": a name is not compared with the
\* abbreviations of the registered arguments.
RECURSIVE scanArgsNoAbbr(_, _, _, _, _, _)
scanArgsNoAbbr(args, abbrs, arg, abbr, ub, i) ==
    IF i > Len(args) THEN "none"
    ELSE IF args[i] = arg THEN "exception"
    ELSE IF abbr = NULL /\ ub = "crash" THEN "crash"
    ELSE IF strEq(args[i], abbr, ub) THEN "exception"
    ELSE IF strEq(abbrs[i], abbr, ub) THEN "exception"
    ELSE scanArgsNoAbbr(args, abbrs, arg, abbr, ub, i + 1)

RECURSIVE scanArgs(_, _, _, _, _, _)
scanArgs(args, abbrs, arg, abbr, ub, i) ==
    IF i > Len(args) THEN "none"
    ELSE IF args[i] = arg THEN "exception"
    ELSE IF abbrs[i] = arg THEN "exception"
    ELSE IF abbr = NULL /\ ub = "crash" THEN "crash"
    ELSE IF strEq(args[i], abbr, ub) THEN "exception"
    ELSE IF strEq(abbrs[i], abbr, ub) THEN "exception"
    ELSE scanArgs(args, abbrs, arg, abbr, ub, i + 1)

\* "Throw exception on keywords / unary args that contain separator characters":
\* the check made after the two loops.  It looks at the name alone.
nameHasSep(arg, abbr, seps) == containsSep(arg, seps)

\* How a call of addKeywordArg or addUnaryArg ends: the loop over the vectors of
\* its own kind, the loop over the other kind, then the separator check.
addArgOutcome(own_args, own_abbrs, other_args, other_abbrs, arg, abbr, ub) ==
    LET own == scanArgs(own_args, own_abbrs, arg, abbr, ub, 1)
        other == scanArgs(other_args, other_abbrs, arg, abbr, ub, 1)
    IN  IF own # "none" THEN own
        ELSE IF other # "none" THEN other
        ELSE IF nameHasSep(arg, abbr, _seps) THEN "exception"
        ELSE "ok"

\* "std::string abbr_str; if (abbr != NULL) abbr_str = abbr;"
abbrStr(abbr) == IF abbr = NULL THEN <<>> ELSE abbr

\* Where a call that ended with r leaves the caller: an Exception is thrown to
\* the call site ("thrown", until the caller catches it), a fault ends the process.
after(r) == IF r = "crash" THEN "crashed" ELSE IF r = "exception" THEN "thrown" ELSE "idle"

NoSnap == [valid |-> FALSE, argv |-> <<>>, outcome |-> <<>>]

\* A call and how it ended: "ok", "exception", "crash" (and "return" / "break"
\* for processArgs); value is what a query returned, NULL for the other calls.
Answer(op, arg, result, value) == [op |-> op, arg |-> arg, abbr |-> NULL, result |-> result, value |-> value]

Call(op, arg, abbr, result) == [op |-> op, arg |-> arg, abbr |-> abbr, result |-> result, value |-> NULL]

addKeywordArg(keyword_arg, abbr, ub) ==
    LET r == addArgOutcome(_keyword_args, _keyword_arg_abbrs, _unary_args, _unary_arg_abbrs, keyword_arg, abbr, ub)
    IN  /\ pc = "idle"
        /\ r = "ok" => Len(_unary_args) + Len(_keyword_args) < MaxSpecs
        /\ last' = Call("addKeywordArg", keyword_arg, abbr, r)
        /\ pc' = after(r)
        /\ snap' = NoSnap
        /\ IF r = "ok"
           THEN /\ _keyword_args' = Append(_keyword_args, keyword_arg)
                /\ _keyword_arg_abbrs' = Append(_keyword_arg_abbrs, abbrStr(abbr))
                /\ _keyword_args_defined' = Append(_keyword_args_defined, FALSE)
                /\ _keyword_arg_values' = Append(_keyword_arg_values, <<>>)
           ELSE UNCHANGED <<_keyword_args, _keyword_arg_abbrs, _keyword_args_defined, _keyword_arg_values>>
        /\ UNCHANGED <<_seps, _exec_name, _unary_args, _unary_arg_abbrs, _unary_args_defined, _errors, _redefinition_is_error, frame, calls>>

addUnaryArg(unary_arg, abbr, ub) ==
    LET r == addArgOutcome(_unary_args, _unary_arg_abbrs, _keyword_args, _keyword_arg_abbrs, unary_arg, abbr, ub)
    IN  /\ pc = "idle"
        /\ r = "ok" => Len(_unary_args) + Len(_keyword_args) < MaxSpecs
        /\ last' = Call("addUnaryArg", unary_arg, abbr, r)
        /\ pc' = after(r)
        /\ snap' = NoSnap
        /\ IF r = "ok"
           THEN /\ _unary_args' = Append(_unary_args, unary_arg)
                /\ _unary_arg_abbrs' = Append(_unary_arg_abbrs, abbrStr(abbr))
                /\ _unary_args_defined' = Append(_unary_args_defined, FALSE)
           ELSE UNCHANGED <<_unary_args, _unary_arg_abbrs, _unary_args_defined>>
        /\ UNCHANGED <<_seps, _exec_name, _keyword_args, _keyword_arg_abbrs, _keyword_args_defined, _keyword_arg_values, _errors, _redefinition_is_error, frame, calls>>

\* setSepString's loops: some character of the separator string in force (the
\* loop runs over _seps, not over sep_string) is in a registered name or abbreviation.
sepStringRejected(sep_string) ==
    \E ci \in 1..Len(_seps) :
        \/ \E i \in 1..Len(_unary_args) :
              contains(_unary_args[i], _seps[ci]) \/ contains(_unary_arg_abbrs[i], _seps[ci])
        \/ \E i \in 1..Len(_keyword_args) :
              contains(_keyword_args[i], _seps[ci]) \/ contains(_keyword_arg_abbrs[i], _seps[ci])

\* setSepString with "_seps = sep_string;" put before the loops that validate.
setSepStringAssignFirst(sep_string) ==
    LET r == IF sepStringRejected(sep_string) THEN "exception" ELSE "ok"
    IN  /\ pc = "idle"
        /\ last' = Call("setSepString", sep_string, NULL, r)
        /\ _seps' = sep_string
        /\ pc' = after(r)
        /\ snap' = NoSnap
        /\ UNCHANGED <<_exec_name, registry, results, _redefinition_is_error, frame, calls>>

setSepString(sep_string) ==
    LET r == IF sepStringRejected(sep_string) THEN "exception" ELSE "ok"
    IN  /\ pc = "idle"
        /\ last' = Call("setSepString", sep_string, NULL, r)
        /\ _seps' = IF r = "ok" THEN sep_string ELSE _seps
        /\ pc' = after(r)
        /\ snap' = NoSnap
        /\ UNCHANGED <<_exec_name, registry, results, _redefinition_is_error, frame, calls>>

\* The caller catches the Exception ("catch (Args::Exception&)") and goes on
\* using the object.
catch ==
    /\ pc = "thrown"
    /\ pc' = "idle"
    /\ last' = Call("catch", <<>>, NULL, "ok")
    /\ UNCHANGED <<_seps, _exec_name, registry, results, _redefinition_is_error, frame, calls, snap>>

setRedefinitionIsError(redefinitionIsError) ==
    /\ pc = "idle"
    /\ last' = Call("setRedefinitionIsError", <<>>, NULL, "ok")
    /\ _redefinition_is_error' = redefinitionIsError
    /\ snap' = NoSnap
    /\ UNCHANGED <<_seps, _exec_name, registry, results, pc, frame, calls>>

-----------------------------------------------------------------------------
(* processArgs.                                                            *)

\* What a caller can read back after processArgs: execName(), the defined
\* flags, the keyword values and errors().
Outcome ==
    [exec |-> _exec_name, unary |-> _unary_args_defined, kdef |-> _keyword_args_defined,
     kval |-> _keyword_arg_values, errors |-> _errors]

\* The entry of processArgs: "if (argc <= 0) return; _exec_name = argv[0]; ai = 0".
\* The errors, the defined flags and the values are members: they are left as
\* the calls before left them.
processArgs(in_argv) ==
    /\ pc = "idle"
    /\ calls' = calls + 1
    /\ IF Len(in_argv) <= 0
       THEN /\ last' = Call("processArgs", <<>>, NULL, "return")
            /\ snap' = [valid |-> TRUE, argv |-> in_argv, outcome |-> Outcome]
            /\ UNCHANGED <<_exec_name, pc, frame>>
       ELSE /\ last' = Call("processArgs", in_argv[1], NULL, "ok")
            /\ _exec_name' = in_argv[1]
            /\ pc' = "parsing"
            /\ argv' = in_argv
            /\ ai' = 0
            /\ UNCHANGED snap
    /\ UNCHANGED <<_seps, registry, results, _redefinition_is_error>>

\* sepIndex taking the separator character that occurs first in arg, not the
\* first of _seps that occurs in arg.
sepIndexLeftmost(arg, seps) ==
    IF containsSep(arg, seps)
    THEN CHOOSE ci \in 1..Len(seps) :
            /\ contains(arg, seps[ci])
            /\ \A cj \in 1..Len(seps) : contains(arg, seps[cj]) => find(arg, seps[ci]) <= find(arg, seps[cj])
    ELSE 0

\* "for ci over _seps: if (arg.find(c) != npos)": the index in _seps of the
\* first separator character, in the order of _seps, that occurs in arg; 0 if none.
sepIndex(arg, seps) ==
    IF containsSep(arg, seps)
    THEN CHOOSE ci \in 1..Len(seps) :
            /\ contains(arg, seps[ci])
            /\ \A cj \in 1..(ci - 1) : ~contains(arg, seps[cj])
    ELSE 0

\* "for i: if (args[i] == s || abbrs[i] == s)": the first index that matches; 0 if none.
matchIndex(args, abbrs, s) ==
    IF \E i \in 1..Len(args) : args[i] = s \/ abbrs[i] = s
    THEN CHOOSE i \in 1..Len(args) :
            /\ args[i] = s \/ abbrs[i] = s
            /\ \A j \in 1..(i - 1) : args[j] # s /\ abbrs[j] # s
    ELSE 0

\* The "for ei" loop of the inline form and of the unary form, and the "if (ei ==
\* _errors.size())" after it: the first error of the type that carries the name
\* gets addCount, and a new error is pushed when there is none.
\* recordRedefinition taking the error it finds out of the vector and pushing
\* it again with its count raised.
recordRedefinitionAtEnd(errors, fresh) ==
    IF \E ei \in 1..Len(errors) : errors[ei].type = fresh.type /\ errors[ei].str = fresh.str
    THEN LET ei == CHOOSE e \in 1..Len(errors) :
                      /\ errors[e].type = fresh.type /\ errors[e].str = fresh.str
                      /\ \A f \in 1..(e - 1) : ~(errors[f].type = fresh.type /\ errors[f].str = fresh.str)
         IN  Append(SubSeq(errors, 1, ei - 1) \o SubSeq(errors, ei + 1, Len(errors)), addCount(errors[ei]))
    ELSE Append(errors, fresh)

recordRedefinition(errors, fresh) ==
    IF \E ei \in 1..Len(errors) : errors[ei].type = fresh.type /\ errors[ei].str = fresh.str
    THEN LET ei == CHOOSE e \in 1..Len(errors) :
                      /\ errors[e].type = fresh.type /\ errors[e].str = fresh.str
                      /\ \A f \in 1..(e - 1) : ~(errors[f].type = fresh.type /\ errors[f].str = fresh.str)
         IN  [errors EXCEPT ![ei] = addCount(@)]
    ELSE Append(errors, fresh)

\* What the pair form's read of _errors[i] may do when it is undefined (i past
\* the end of the vector, or an Error that is no RedefinitionOfKey so that the
\* dynamic_cast yields a null pointer): a fault ("crash"), a key that compares
\* unequal ("unequal"), or one that compares equal, addCount then writing outside
\* the errors ("equal").
BadReadOutcomes == {"crash", "unequal", "equal"}

\* The "for ei" loop of the pair form: for every ei whose error is a
\* RedefinitionOfKey it looks at _errors[i], i being the keyword's index and not
\* ei.  [crash, errors]: whether the read faulted, and the errors after the loop
\* and the "if (ei == _errors.size())" that follows it.
pairRedefinition(errors, i, key, ub) ==
    IF ~(\E ei \in 1..Len(errors) : errors[ei].type = "REDEFINITION_OF_KEY")
    THEN [crash |-> FALSE, errors |-> Append(errors, RedefinitionOfKey(key))]
    ELSE IF i > Len(errors) \/ errors[i].type # "REDEFINITION_OF_KEY"
    THEN CASE ub = "crash" -> [crash |-> TRUE, errors |-> errors]
           [] ub = "equal" -> [crash |-> FALSE, errors |-> errors]
           [] OTHER -> [crash |-> FALSE, errors |-> Append(errors, RedefinitionOfKey(key))]
    ELSE IF errors[i].str = key
    THEN [crash |-> FALSE, errors |-> [errors EXCEPT ![i] = addCount(@)]]
    ELSE [crash |-> FALSE, errors |-> Append(errors, RedefinitionOfKey(key))]

\* setValue keeping the value a keyword argument already has: "if the value is
\* empty" put before the assignment.
setValueOnce(values, i, value) == IF values[i] = <<>> THEN [values EXCEPT ![i] = value] ELSE values

\* "_keyword_arg_values[i] = value;"
setValue(values, i, value) == [values EXCEPT ![i] = value]

\* "else _keyword_args_defined[i] = true;" / "else _unary_args_defined[i] = true;"
setDefined(defined, i) == [defined EXCEPT ![i] = TRUE]

\* "if (ai == argc)"
atEnd(i, argc) == i = argc

\* The inline form (a separator character c = _seps[ci] is in arg): the state
\* the iteration leaves, as [pc, ai, unary, kdef, kval, errors].
inlineForm(arg, ci, n) ==
    LET p == find(arg, _seps[ci])
        keyword == substrBefore(arg, p)
        value == substrAfter(arg, p)
        i == matchIndex(_keyword_args, _keyword_arg_abbrs, keyword)
    IN  IF i # 0
        THEN [pc |-> "parsing", ai |-> n, unary |-> _unary_args_defined,
              kdef |-> IF _keyword_args_defined[i] THEN _keyword_args_defined
                       ELSE setDefined(_keyword_args_defined, i),
              kval |-> setValue(_keyword_arg_values, i, value),
              errors |-> IF _keyword_args_defined[i] /\ _redefinition_is_error
                         THEN recordRedefinition(_errors, RedefinitionOfKey(_keyword_args[i]))
                         ELSE _errors]
        ELSE [pc |-> "parsing", ai |-> n, unary |-> _unary_args_defined,
              kdef |-> _keyword_args_defined, kval |-> _keyword_arg_values,
              errors |-> Append(_errors, UnrecognizedArg(arg))]

\* unaryForm without "if (_redefinition_is_error)".
unaryFormAlwaysTracks(i, n) ==
    [pc |-> "parsing", ai |-> n,
     unary |-> IF _unary_args_defined[i] THEN _unary_args_defined
               ELSE setDefined(_unary_args_defined, i),
     kdef |-> _keyword_args_defined, kval |-> _keyword_arg_values,
     errors |-> IF _unary_args_defined[i]
                THEN recordRedefinition(_errors, RedefinitionOfUnaryArg(_unary_args[i]))
                ELSE _errors]

\* "See if argument matches any unary args", unary argument i matching.
unaryForm(i, n) ==
    [pc |-> "parsing", ai |-> n,
     unary |-> IF _unary_args_defined[i] THEN _unary_args_defined
               ELSE setDefined(_unary_args_defined, i),
     kdef |-> _keyword_args_defined, kval |-> _keyword_arg_values,
     errors |-> IF _unary_args_defined[i] /\ _redefinition_is_error
                THEN recordRedefinition(_errors, RedefinitionOfUnaryArg(_unary_args[i]))
                ELSE _errors]

\* "See if it matches any keyword args", keyword argument i matching: "++ ai",
\* the NoValueForKey return, else the redefinition loop and the store of argv[ai].
pairForm(arg, i, n, ub) ==
    LET n2 == n + 1
        redef == IF _keyword_args_defined[i] /\ _redefinition_is_error
                 THEN pairRedefinition(_errors, i, _keyword_args[i], ub)
                 ELSE [crash |-> FALSE, errors |-> _errors]
    IN  IF atEnd(n2, Len(argv))
        THEN [pc |-> "idle", ai |-> n2, unary |-> _unary_args_defined,
              kdef |-> _keyword_args_defined, kval |-> _keyword_arg_values,
              errors |-> Append(_errors, NoValueForKey(arg))]
        ELSE IF redef.crash
        THEN [pc |-> "crashed", ai |-> n2, unary |-> _unary_args_defined,
              kdef |-> _keyword_args_defined, kval |-> _keyword_arg_values,
              errors |-> _errors]
        ELSE [pc |-> "parsing", ai |-> n2, unary |-> _unary_args_defined,
              kdef |-> IF _keyword_args_defined[i] THEN _keyword_args_defined
                       ELSE setDefined(_keyword_args_defined, i),
              kval |-> setValue(_keyword_arg_values, i, argv[n2 + 1]),
              errors |-> redef.errors]

\* One iteration of "while (true)" for the argument argv[n], n = ai + 1 < argc.
classify(arg, n, ub) ==
    LET ci == sepIndex(arg, _seps)
        u == matchIndex(_unary_args, _unary_arg_abbrs, arg)
        k == matchIndex(_keyword_args, _keyword_arg_abbrs, arg)
    IN  IF ci # 0 THEN inlineForm(arg, ci, n)
        ELSE IF u # 0 THEN unaryForm(u, n)
        ELSE IF k # 0 THEN pairForm(arg, k, n, ub)
        ELSE [pc |-> "parsing", ai |-> n, unary |-> _unary_args_defined,
              kdef |-> _keyword_args_defined, kval |-> _keyword_arg_values,
              errors |-> Append(_errors, UnrecognizedArg(arg))]

\* The next iteration makes the pair form's undefined read of _errors[i]: the
\* argument is the key of a pair, its keyword argument i is defined already,
\* redefinitions are errors, some error is a RedefinitionOfKey, and _errors[i]
\* is past the end or is no RedefinitionOfKey.
badRead ==
    /\ pc = "parsing"
    /\ ai + 2 < Len(argv)
    /\ _redefinition_is_error
    /\ LET arg == argv[ai + 2]
           k == matchIndex(_keyword_args, _keyword_arg_abbrs, arg)
       IN  /\ sepIndex(arg, _seps) = 0
           /\ matchIndex(_unary_args, _unary_arg_abbrs, arg) = 0
           /\ k # 0
           /\ _keyword_args_defined[k]
           /\ \E ei \in 1..Len(_errors) : _errors[ei].type = "REDEFINITION_OF_KEY"
           /\ k > Len(_errors) \/ _errors[k].type # "REDEFINITION_OF_KEY"

\* The outcomes the next iteration can meet.
ReadOutcomes == IF badRead THEN BadReadOutcomes ELSE {"unequal"}

\* "argloop: ++ ai; if (ai == argc) break;" and the body of the loop.  A return
\* ends the call: the frame is gone and the object is idle again.
argLoop(ub) ==
    /\ pc = "parsing"
    /\ LET n == ai + 1 IN
       IF atEnd(n, Len(argv))
       THEN /\ pc' = "idle"
            /\ last' = Call("argLoop", <<>>, NULL, "break")
            /\ snap' = [valid |-> TRUE, argv |-> argv, outcome |-> Outcome]
            /\ argv' = <<>>
            /\ ai' = 0
            /\ UNCHANGED results
       ELSE LET arg == argv[n + 1]
                to == classify(arg, n, ub)
            IN  /\ pc' = to.pc
                /\ _unary_args_defined' = to.unary
                /\ _keyword_args_defined' = to.kdef
                /\ _keyword_arg_values' = to.kval
                /\ _errors' = to.errors
                /\ IF to.pc = "idle"
                   THEN /\ last' = Call("argLoop", arg, NULL, "return")
                        /\ snap' = [valid |-> TRUE, argv |-> argv,
                                    outcome |-> [Outcome EXCEPT !.errors = to.errors]]
                        /\ argv' = <<>>
                        /\ ai' = 0
                   ELSE /\ last' = Call("argLoop", arg, NULL, IF to.pc = "crashed" THEN "crash" ELSE "ok")
                        /\ ai' = to.ai
                        /\ UNCHANGED <<argv, snap>>
    /\ UNCHANGED <<_seps, _exec_name, registry, _redefinition_is_error, calls>>

-----------------------------------------------------------------------------
(* The queries: keywordArgDefined, valueForKeywordArg, unaryArgDefined.    *)

\* "for i: if (args[i] == name) return ...": the first index whose name is
\* name; 0 if none (the abbreviations are not looked at).
\* nameIndex with the test of processArgs, "args[i] == name || abbrs[i] == name".
nameOrAbbrIndex(args, name) ==
    matchIndex(args, IF args = _unary_args THEN _unary_arg_abbrs ELSE _keyword_arg_abbrs, name)

nameIndex(args, name) ==
    IF \E i \in 1..Len(args) : args[i] = name
    THEN CHOOSE i \in 1..Len(args) : args[i] = name /\ \A j \in 1..(i - 1) : args[j] # name
    ELSE 0

\* A const method: it returns values[i] for the first name that matches, or
\* throws an Exception ("No such ...") after the loop.
query(op, args, values, name) ==
    LET i == nameIndex(args, name)
        r == IF i = 0 THEN "exception" ELSE "ok"
    IN  /\ pc = "idle"
        /\ last' = Answer(op, name, r, IF i = 0 THEN NULL ELSE values[i])
        /\ pc' = after(r)
        /\ UNCHANGED <<_seps, _exec_name, registry, results, _redefinition_is_error, frame, calls, snap>>

keywordArgDefined(keyword_arg) ==
    query("keywordArgDefined", _keyword_args, _keyword_args_defined, keyword_arg)

valueForKeywordArg(keyword_arg) ==
    query("valueForKeywordArg", _keyword_args, _keyword_arg_values, keyword_arg)

unaryArgDefined(unary_arg) ==
    query("unaryArgDefined", _unary_args, _unary_args_defined, unary_arg)

-----------------------------------------------------------------------------
(* The object after "Args() : _seps("="), _redefinition_is_error(true)".   *)

Init ==
    /\ _seps = <<"=">>
    /\ _exec_name = <<>>
    /\ _unary_args = <<>>
    /\ _unary_arg_abbrs = <<>>
    /\ _unary_args_defined = <<>>
    /\ _keyword_args = <<>>
    /\ _keyword_arg_abbrs = <<>>
    /\ _keyword_args_defined = <<>>
    /\ _keyword_arg_values = <<>>
    /\ _errors = <<>>
    /\ _redefinition_is_error = TRUE
    /\ pc = "idle"
    /\ argv = <<>>
    /\ ai = 0
    /\ last = Call("Args", <<>>, NULL, "ok")
    /\ calls = 0
    /\ snap = NoSnap

-----------------------------------------------------------------------------
(* The calls explored.                                                     *)

\* All argument vectors of at most n strings: argv[0] from execs, the rest from tokens.
RECURSIVE Tuples(_, _)
Tuples(tokens, n) ==
    IF n = 0 THEN {<<>>}
    ELSE LET shorter == Tuples(tokens, n - 1)
         IN  shorter \cup {Append(t, x) : t \in {s \in shorter : Len(s) = n - 1}, x \in tokens}

Argvs(execs, tokens, n) ==
    IF n = 0 THEN {<<>>}
    ELSE {<<>>} \cup {<<e>> \o t : e \in execs, t \in Tuples(tokens, n - 1)}

\* The outcomes of the undefined comparison that a call with abbreviation b can meet.
Outcomes(b) == IF b = NULL THEN NullCompareOutcomes ELSE {"unequal"}

\* Spec: the object is configured with names and abbreviations with and without
\* separator characters and with the empty name; processArgs is then called
\* with a short argument vector, and called again with the same vector; the
\* queries are made at any time the object is idle.
RegNames == {<<>>, <<"k">>, <<"k", "=">>, <<"o", ":">>}

RegAbbrs == (RegNames \ {<<>>}) \cup {NULL}

SepStrings == {<<"=">>, <<":">>}

RegArgvs == Argvs({<<"p">>}, {<<"k">>, <<"k", "=", "o">>}, 3)

\* The strings the queries are made with.
QueryNames == {<<"k">>, <<"o", ":">>}

Next ==
    \/ calls = 0 /\ pc = "idle" /\ \E a \in RegNames, b \in RegAbbrs : \E ub \in Outcomes(b) : addKeywordArg(a, b, ub)
    \/ calls = 0 /\ pc = "idle" /\ \E a \in RegNames, b \in RegAbbrs : \E ub \in Outcomes(b) : addUnaryArg(a, b, ub)
    \/ calls = 0 /\ pc = "idle" /\ \E s \in SepStrings : setSepString(s)
    \/ calls = 0 /\ pc = "idle" /\ \E b \in BOOLEAN : setRedefinitionIsError(b)
    \/ catch
    \/ calls < MaxCalls /\ pc = "idle" /\ \E v \in RegArgvs : (snap.valid => v = snap.argv) /\ processArgs(v)
    \/ \E ub \in ReadOutcomes : argLoop(ub)
    \/ pc = "idle" /\ \E a \in QueryNames : keywordArgDefined(a)
    \/ pc = "idle" /\ \E a \in QueryNames : valueForKeywordArg(a)
    \/ pc = "idle" /\ \E a \in QueryNames : unaryArgDefined(a)

Spec == Init /\ [][Next]_vars

\* ParseSpec: the object is configured (two keyword arguments, one unary
\* argument, an abbreviation) and processArgs is then called once, with every
\* argument vector of at most MaxArgc strings over ParseTokens.
KeywordNames == {<<"k">>, <<"o">>}

UnaryNames == {<<"v">>}

ParseAbbrs == {NULL, <<"j">>}

ParseTokens == {<<>>, <<"o">>, <<"v">>, <<"j">>, <<"x">>, <<"o", "=", "x">>}

ParseArgvs == Argvs({<<"p">>}, ParseTokens, MaxArgc)

ParseNext ==
    \/ calls = 0 /\ pc = "idle" /\ \E a \in KeywordNames, b \in ParseAbbrs : \E ub \in Outcomes(b) : addKeywordArg(a, b, ub)
    \/ calls = 0 /\ pc = "idle" /\ \E a \in UnaryNames : \E ub \in Outcomes(NULL) : addUnaryArg(a, NULL, ub)
    \/ calls = 0 /\ setSepString(<<"=">>)
    \/ calls = 0 /\ pc = "idle" /\ \E b \in BOOLEAN : setRedefinitionIsError(b)
    \/ catch
    \/ calls = 0 /\ pc = "idle" /\ \E v \in ParseArgvs : processArgs(v)
    \/ \E ub \in ReadOutcomes : argLoop(ub)

ParseSpec == Init /\ [][ParseNext]_vars

\* InlineSpec: separator strings of one and of two characters, a keyword
\* argument with no abbreviation, with one, or with one that holds a separator
\* character, a unary argument, and every argument vector of at most MaxArgc
\* strings over InlineTokens.
InlineSeps == {<<"=">>, <<":", "=">>, <<"=", ":">>}

InlineAbbrs == {NULL, <<"j">>, <<"k", "=">>}

InlineTokens == {<<"=", "x">>, <<"k", "=">>, <<"x">>, <<"k", ":", "x", "=", "y">>}

InlineArgvs == Argvs({<<"p">>}, InlineTokens, MaxArgc)

InlineNext ==
    \/ calls = 0 /\ pc = "idle" /\ \E b \in InlineAbbrs : \E ub \in Outcomes(b) : addKeywordArg(<<"k">>, b, ub)
    \/ calls = 0 /\ pc = "idle" /\ \E ub \in Outcomes(NULL) : addUnaryArg(<<"v">>, NULL, ub)
    \/ calls = 0 /\ pc = "idle" /\ \E s \in InlineSeps : setSepString(s)
    \/ calls = 0 /\ pc = "idle" /\ \E b \in BOOLEAN : setRedefinitionIsError(b)
    \/ catch
    \/ calls = 0 /\ pc = "idle" /\ \E v \in InlineArgvs : processArgs(v)
    \/ \E ub \in ReadOutcomes : argLoop(ub)

InlineSpec == Init /\ [][InlineNext]_vars

-----------------------------------------------------------------------------
(* Vocabulary of the claims.                                               *)

\* An abbreviation was declared for a spec iff the stored abbreviation is not
\* the empty string that addKeywordArg / addUnaryArg store for a left-out one.
DeclaredAbbrs(abbrs) == {abbrs[i] : i \in {j \in 1..Len(abbrs) : abbrs[j] # <<>>}}

Names(args) == {args[i] : i \in 1..Len(args)}

\* The names and the declared abbreviations of all registered specs, of both kinds.
Vocabulary ==
    Names(_unary_args) \cup Names(_keyword_args)
        \cup DeclaredAbbrs(_unary_arg_abbrs) \cup DeclaredAbbrs(_keyword_arg_abbrs)

RegistrationOps == {"addKeywordArg", "addUnaryArg"}

-----------------------------------------------------------------------------
\* C1: calling processArgs twice in a row on the same object with the same
\* argument vector yields the same outcome both times (same executable name,
\* same defined flags, same keyword values, same errors with the same counts).
C1_ParseIsIdempotent ==
    [][(pc = "parsing" /\ pc' = "idle" /\ snap.valid /\ snap.argv = argv)
          => snap'.outcome = snap.outcome]_vars

\* C2: setSepString fails whenever a registered name or abbreviation contains a
\* character of the requested separator string, and the separator string that
\* was in force stays in force.
C2_NewSeparatorsAreValidated ==
    [][(last'.op = "setSepString"
           /\ \E ci \in 1..Len(last'.arg) : \E s \in Vocabulary : contains(s, last'.arg[ci]))
          => (last'.result = "exception" /\ _seps' = _seps)]_vars

-----------------------------------------------------------------------------
(* The occurrences of keyword arguments in an argument vector.             *)

\* The keyword arguments given a value by av[j..upto] (the code's indexes), in
\* order, as [i, value]: an argument with a separator character whose part
\* before it is a keyword, or a keyword followed by its value.  An argument
\* that a pair has taken as its value is no occurrence of its own.
RECURSIVE keywordValues(_, _, _)
keywordValues(av, j, upto) ==
    IF j > upto THEN <<>>
    ELSE LET arg == av[j + 1]
             ci == sepIndex(arg, _seps)
             p == find(arg, _seps[ci])
             inl == matchIndex(_keyword_args, _keyword_arg_abbrs, substrBefore(arg, p))
             k == matchIndex(_keyword_args, _keyword_arg_abbrs, arg)
         IN  IF ci # 0
             THEN (IF inl # 0 THEN <<[i |-> inl, value |-> substrAfter(arg, p)]>> ELSE <<>>)
                      \o keywordValues(av, j + 1, upto)
             ELSE IF matchIndex(_unary_args, _unary_arg_abbrs, arg) # 0
             THEN keywordValues(av, j + 1, upto)
             ELSE IF k # 0
             THEN IF j + 1 > upto THEN <<>>
                  ELSE <<[i |-> k, value |-> av[j + 2]]>> \o keywordValues(av, j + 2, upto)
             ELSE keywordValues(av, j + 1, upto)

\* The values given to keyword argument k, in order.
ValuesOf(occ, k) == SelectSeq(occ, LAMBDA o : o.i = k)

\* The arguments processArgs has gone through: those up to ai during the call,
\* all of them after it.
Seen ==
    IF pc = "parsing" THEN keywordValues(argv, 1, ai)
    ELSE keywordValues(snap.argv, 1, Len(snap.argv) - 1)

\* During processArgs, or after it has returned.
Parsed == pc = "parsing" \/ (pc = "idle" /\ snap.valid)

-----------------------------------------------------------------------------
\* C4: with redefinitions being errors, at every point of processArgs on a fresh
\* object _errors holds at most one RedefinitionOfKey per keyword argument, and
\* once a keyword argument has been given n >= 2 times that error's count is n.
C4_OneRedefinitionOfKeyPerName ==
    (pc = "parsing" /\ _redefinition_is_error) =>
        \A k \in 1..Len(_keyword_args) :
            LET n == Len(ValuesOf(Seen, k))
                recs == {ei \in 1..Len(_errors) :
                            /\ _errors[ei].type = "REDEFINITION_OF_KEY"
                            /\ _errors[ei].str = _keyword_args[k]}
            IN  /\ Cardinality(recs) <= 1
                /\ n >= 2 => \E ei \in recs : _errors[ei].count = n

\* An argument that is the key of a pair: no separator character in it, no
\* unary argument's name or abbreviation, a keyword argument's name or abbreviation.
IsPairKey(arg) ==
    /\ ~containsSep(arg, _seps)
    /\ arg \notin Names(_unary_args) \cup DeclaredAbbrs(_unary_arg_abbrs)
    /\ arg \in Names(_keyword_args) \cup DeclaredAbbrs(_keyword_arg_abbrs)

\* C5: when the last argument is the key of a pair, processArgs appends one
\* NoValueForKey error carrying it, after the errors recorded before, returns,
\* and leaves the defined flags and the values as they were.
C5_DanglingKeyIsRecordedLast ==
    [][(pc = "parsing" /\ ai + 2 = Len(argv) /\ IsPairKey(argv[ai + 2]))
          => /\ _errors' = Append(_errors, [type |-> "NO_VALUE_FOR_KEY", str |-> argv[ai + 2], count |-> 0])
             /\ pc' = "idle"
             /\ UNCHANGED <<_unary_args_defined, _keyword_args_defined, _keyword_arg_values>>]_vars

\* C5 witness: processArgs has returned on a dangling key, after an
\* unrecognized argument: the errors are UnrecognizedArg, then NoValueForKey.
C5_Witness ==
    /\ pc = "idle"
    /\ last.op = "argLoop"
    /\ last.result = "return"
    /\ Len(_errors) = 2
    /\ _errors[1].type = "UNRECOGNIZED_ARG"
    /\ _errors[2].type = "NO_VALUE_FOR_KEY"
    /\ _errors[2].str \in Names(_keyword_args)

C7_UnknownArgumentIsUnrecognized ==
    [][(pc = "parsing" /\ ai + 1 < Len(argv)
           /\ ~containsSep(argv[ai + 2], _seps) /\ argv[ai + 2] \notin Vocabulary)
          => /\ _errors' = Append(_errors, [type |-> "UNRECOGNIZED_ARG", str |-> argv[ai + 2], count |-> 0])
             /\ UNCHANGED <<_unary_args_defined, _keyword_args_defined>>
             /\ ai' = ai + 1]_vars

\* The names of all registered specs followed by their declared abbreviations.
AllStrings ==
    _unary_args \o _keyword_args
        \o SelectSeq(_unary_arg_abbrs, LAMBDA a : a # <<>>)
        \o SelectSeq(_keyword_arg_abbrs, LAMBDA a : a # <<>>)

\* C8: after any sequence of registrations, successful or not, no string occurs
\* twice among the registered names and declared abbreviations; a spec whose
\* abbreviation is its own name is never registered.
C8_RegistryStringsAreUnique ==
    \A i, j \in 1..Len(AllStrings) : i # j => AllStrings[i] # AllStrings[j]

\* C9: a registration whose name, or whose given abbreviation, contains a
\* character of the separator string in force fails.
C9_SeparatorInNameOrAbbrIsRejected ==
    [][(last'.op \in RegistrationOps
           /\ (containsSep(last'.arg, _seps)
                  \/ (last'.abbr # NULL /\ containsSep(last'.abbr, _seps))))
          => (last'.result # "ok" /\ registry' = registry)]_vars

\* C10: a registration that leaves the abbreviation out succeeds whenever its
\* name is no registered name or declared abbreviation and contains no
\* separator character, whatever is registered already.
C10_AbbreviationIsOptional ==
    [][(last'.op \in RegistrationOps /\ last'.abbr = NULL
           /\ last'.arg \notin Vocabulary /\ ~containsSep(last'.arg, _seps))
          => last'.result = "ok"]_vars

-----------------------------------------------------------------------------
\* The part of an argument before / after the separator character it is split
\* at: the first character of _seps, in the order of _seps, that occurs in it.
KeyOf(arg) == substrBefore(arg, find(arg, _seps[sepIndex(arg, _seps)]))

ValueOf(arg) == substrAfter(arg, find(arg, _seps[sepIndex(arg, _seps)]))

KeywordVocabulary == Names(_keyword_args) \cup DeclaredAbbrs(_keyword_arg_abbrs)

\* C11: an argument with a separator character in it is only ever taken as
\* key and value in one: it takes one argument, marks no unary argument and
\* is no key of a pair, and when its part before the separator is no keyword
\* argument's name or declared abbreviation it adds one UnrecognizedArg with
\* the whole argument and leaves the defined flags and the values alone.
C11_SeparatorTokenIsInlineOnly ==
    [][(pc = "parsing" /\ ai + 1 < Len(argv) /\ containsSep(argv[ai + 2], _seps))
          => /\ ai' = ai + 1
             /\ pc' = "parsing"
             /\ UNCHANGED _unary_args_defined
             /\ KeyOf(argv[ai + 2]) \notin KeywordVocabulary
                   => /\ _errors' = Append(_errors, [type |-> "UNRECOGNIZED_ARG", str |-> argv[ai + 2], count |-> 0])
                      /\ UNCHANGED <<_keyword_args_defined, _keyword_arg_values>>]_vars

-----------------------------------------------------------------------------
(* The occurrences of unary arguments in an argument vector.               *)

\* The unary argument that s names, by its name or its declared abbreviation; 0 if none.
unaryNamed(s) ==
    IF \E i \in 1..Len(_unary_args) :
          _unary_args[i] = s \/ (_unary_arg_abbrs[i] # <<>> /\ _unary_arg_abbrs[i] = s)
    THEN CHOOSE i \in 1..Len(_unary_args) :
            _unary_args[i] = s \/ (_unary_arg_abbrs[i] # <<>> /\ _unary_arg_abbrs[i] = s)
    ELSE 0

\* The unary arguments that av[j..upto] (the code's indexes) names, in order:
\* an argument without a separator character that is a unary argument's name
\* or declared abbreviation.  The value of a pair is no occurrence.
RECURSIVE unaryOccurrences(_, _, _)
unaryOccurrences(av, j, upto) ==
    IF j > upto THEN <<>>
    ELSE LET arg == av[j + 1]
         IN  IF containsSep(arg, _seps) THEN unaryOccurrences(av, j + 1, upto)
             ELSE IF unaryNamed(arg) # 0 THEN <<unaryNamed(arg)>> \o unaryOccurrences(av, j + 1, upto)
             ELSE IF arg \in KeywordVocabulary THEN unaryOccurrences(av, j + 2, upto)
             ELSE unaryOccurrences(av, j + 1, upto)

\* How often unary argument u occurs in the argument vector of the call that has returned.
TimesGiven(u) ==
    Len(SelectSeq(unaryOccurrences(snap.argv, 1, Len(snap.argv) - 1), LAMBDA o : o = u))

\* The first call of processArgs on the object has returned.
FirstParseDone == pc = "idle" /\ snap.valid /\ calls = 1

\* C12: with redefinitions being errors, after processArgs on a fresh object a
\* unary argument that the arguments name n >= 2 times (by name or by
\* abbreviation) is defined and has exactly one RedefinitionOfUnaryArg with
\* its name, whose count is n; one that is named once has none.
C12_OneRedefinitionOfUnaryArgPerName ==
    (FirstParseDone /\ _redefinition_is_error) =>
        \A u \in 1..Len(_unary_args) :
            LET n == TimesGiven(u)
                recs == {ei \in 1..Len(_errors) :
                            /\ _errors[ei].type = "REDEFINITION_OF_UNARY_ARG"
                            /\ _errors[ei].str = _unary_args[u]}
            IN  /\ n >= 2 => /\ Cardinality(recs) = 1
                             /\ \A ei \in recs : _errors[ei].count = n
                             /\ _unary_args_defined[u]
                /\ n = 1 => recs = {}

\* C13: processArgs comes to an end and only a dangling key stops it early:
\* argv[0] is the executable name and is not matched, every step takes the next
\* argument or the next two and never faults, and processArgs returns only
\* when all arguments are taken or with a NoValueForKey appended.
C13_ScanStopsOnlyOnDanglingKey ==
    [][pc = "parsing"
          => /\ _exec_name = argv[1] /\ ai >= 0
             /\ pc' \in {"parsing", "idle"}
             /\ pc' = "parsing" => ai' \in {ai + 1, ai + 2} /\ ai' < Len(argv)
             /\ pc' = "idle" =>
                   \/ ai + 1 = Len(argv) /\ _errors' = _errors
                   \/ /\ Len(_errors') = Len(_errors) + 1
                      /\ _errors'[Len(_errors')].type = "NO_VALUE_FOR_KEY"]_vars

-----------------------------------------------------------------------------
\* The full name that s stands for where a unary argument or the key of a
\* pair is looked for: the name of the argument whose declared abbreviation s
\* is, s itself otherwise.
FullName(s, args, abbrs) ==
    IF \E i \in 1..Len(args) : abbrs[i] # <<>> /\ abbrs[i] = s
    THEN args[CHOOSE i \in 1..Len(args) : abbrs[i] # <<>> /\ abbrs[i] = s]
    ELSE s

\* The argument with every abbreviation in it replaced by the full name.
Canonical(arg) ==
    IF containsSep(arg, _seps)
    THEN FullName(KeyOf(arg), _keyword_args, _keyword_arg_abbrs)
            \o <<_seps[sepIndex(arg, _seps)]>> \o ValueOf(arg)
    ELSE FullName(FullName(arg, _unary_args, _unary_arg_abbrs), _keyword_args, _keyword_arg_abbrs)

\* C14: an abbreviation and the full name are interchangeable: a step of
\* processArgs on an argument that uses an abbreviation leaves the defined
\* flags, the values and the errors (the names in the errors included) as the
\* same step on the argument with the full name would.
C14_AbbreviationIsInterchangeable ==
    [][(pc = "parsing" /\ ai + 1 < Len(argv) /\ Canonical(argv[ai + 2]) # argv[ai + 2])
          => \E ub \in ReadOutcomes :
                LET to == classify(Canonical(argv[ai + 2]), ai + 1, ub)
                IN  /\ pc' = to.pc
                    /\ _unary_args_defined' = to.unary
                    /\ _keyword_args_defined' = to.kdef
                    /\ _keyword_arg_values' = to.kval
                    /\ _errors' = to.errors]_vars

-----------------------------------------------------------------------------
QueryOps == {"keywordArgDefined", "valueForKeywordArg", "unaryArgDefined"}

C15_FailedCallChangesNothing ==
    [][(last'.op \in RegistrationOps \cup {"setSepString"} \cup QueryOps /\ last'.result = "exception")
          => UNCHANGED <<registry, _seps, results>>]_vars

\* C15 witness: setSepString was refused with another separator string than
\* the one in force, two arguments being registered.
C15_Witness ==
    /\ pc = "thrown"
    /\ last.op = "setSepString"
    /\ last.result = "exception"
    /\ last.arg # _seps
    /\ Len(_unary_args) + Len(_keyword_args) = 2

-----------------------------------------------------------------------------
RedefinitionTypes == {"REDEFINITION_OF_KEY", "REDEFINITION_OF_UNARY_ARG"}

\* The errors of _errors' that are no more what they were in _errors.
Recounted == {ei \in 1..Len(_errors) : _errors'[ei] # _errors[ei]}

\* C16: a step of processArgs removes and reorders no error: it leaves the
\* errors alone, or appends one, or adds exactly 1 to the count of one
\* RedefinitionOfKey or RedefinitionOfUnaryArg, which stays where it is.
C16_ErrorsAreAppendOnly ==
    [][pc = "parsing"
          => /\ Len(_errors') \in {Len(_errors), Len(_errors) + 1}
             /\ Cardinality(Recounted) <= 1
             /\ Recounted # {} => Len(_errors') = Len(_errors)
             /\ \A ei \in Recounted :
                   /\ _errors[ei].type \in RedefinitionTypes
                   /\ _errors'[ei] = [_errors[ei] EXCEPT !.count = @ + 1]]_vars

\* C16 witness: "v" "v" "x" "v": the RedefinitionOfUnaryArg recorded at the
\* second "v" is still the first error, with count 3, the UnrecognizedArg of
\* "x" after it.
C16_Witness ==
    /\ pc = "parsing"
    /\ ai = 4
    /\ SubSeq(argv, 2, 5) = <<(<<"v">>), (<<"v">>), (<<"x">>), (<<"v">>)>>
    /\ _errors = <<[type |-> "REDEFINITION_OF_UNARY_ARG", str |-> <<"v">>, count |-> 3],
                   [type |-> "UNRECOGNIZED_ARG", str |-> <<"x">>, count |-> 0]>>

-----------------------------------------------------------------------------
(* Well-formed argument vectors.                                           *)

\* The keyword argument that s names, by its name or its declared abbreviation; 0 if none.
keywordNamed(s) ==
    IF \E i \in 1..Len(_keyword_args) :
          _keyword_args[i] = s \/ (_keyword_arg_abbrs[i] # <<>> /\ _keyword_arg_abbrs[i] = s)
    THEN CHOOSE i \in 1..Len(_keyword_args) :
            _keyword_args[i] = s \/ (_keyword_arg_abbrs[i] # <<>> /\ _keyword_arg_abbrs[i] = s)
    ELSE 0

\* av[j..] (the code's indexes) read as unary arguments, pairs of key and
\* value, and key<separator>value arguments: [kind, i, value] for each, kind
\* "none" for an argument that is none of them.
RECURSIVE reading(_, _)
reading(av, j) ==
    IF j > Len(av) - 1 THEN <<>>
    ELSE LET arg == av[j + 1]
         IN  IF unaryNamed(arg) # 0
             THEN <<[kind |-> "unary", i |-> unaryNamed(arg), value |-> <<>>]>> \o reading(av, j + 1)
             ELSE IF keywordNamed(arg) # 0 /\ j + 1 <= Len(av) - 1
             THEN <<[kind |-> "keyword", i |-> keywordNamed(arg), value |-> av[j + 2]]>> \o reading(av, j + 2)
             ELSE IF containsSep(arg, _seps) /\ keywordNamed(KeyOf(arg)) # 0
             THEN <<[kind |-> "keyword", i |-> keywordNamed(KeyOf(arg)), value |-> ValueOf(arg)]>>
                      \o reading(av, j + 1)
             ELSE <<[kind |-> "none", i |-> 0, value |-> <<>>]>> \o reading(av, j + 1)

\* Every argument after argv[0] is a registered argument and none is given twice.
WellFormed(rd) ==
    /\ \A a \in 1..Len(rd) : rd[a].kind # "none"
    /\ \A a, b \in 1..Len(rd) : (a # b /\ rd[a].kind = rd[b].kind) => rd[a].i # rd[b].i

\* C17: with the registered names and declared abbreviations pairwise distinct,
\* processArgs on a fresh object with a well-formed argument vector records no
\* error, marks exactly the arguments given as defined and stores for every
\* keyword argument given the value given.
C17_WellFormedInputParsesCleanly ==
    LET rd == reading(snap.argv, 1)
    IN  (FirstParseDone /\ C8_RegistryStringsAreUnique /\ Len(snap.argv) >= 1 /\ WellFormed(rd))
            => /\ _errors = <<>>
               /\ \A u \in 1..Len(_unary_args) :
                     _unary_args_defined[u] <=> \E a \in 1..Len(rd) : rd[a].kind = "unary" /\ rd[a].i = u
               /\ \A k \in 1..Len(_keyword_args) :
                     /\ _keyword_args_defined[k] <=> \E a \in 1..Len(rd) : rd[a].kind = "keyword" /\ rd[a].i = k
                     /\ \A a \in 1..Len(rd) :
                           (rd[a].kind = "keyword" /\ rd[a].i = k) => _keyword_arg_values[k] = rd[a].value

-----------------------------------------------------------------------------
\* The argument is taken as key and value in one and its key matches no
\* keyword argument, or it has no separator character and matches nothing.
MatchesNothing(arg) ==
    IF containsSep(arg, _seps)
    THEN matchIndex(_keyword_args, _keyword_arg_abbrs, KeyOf(arg)) = 0
    ELSE /\ matchIndex(_unary_args, _unary_arg_abbrs, arg) = 0
         /\ matchIndex(_keyword_args, _keyword_arg_abbrs, arg) = 0

\* The argument is matched as the key of a pair.
MatchesPairKey(arg) ==
    /\ ~containsSep(arg, _seps)
    /\ matchIndex(_unary_args, _unary_arg_abbrs, arg) = 0
    /\ matchIndex(_keyword_args, _keyword_arg_abbrs, arg) # 0

\* C19: with setRedefinitionIsError(false) no step of processArgs adds a
\* RedefinitionOfKey or RedefinitionOfUnaryArg or changes a count, however
\* often an argument is given; what is defined stays defined; and
\* UnrecognizedArg and NoValueForKey are recorded as they are otherwise, for an
\* argument that matches nothing and for a key without a value.
C19_NoRedefinitionErrorsWhenSwitchedOff ==
    [][(pc = "parsing" /\ ~_redefinition_is_error /\ ai + 1 < Len(argv))
          => LET arg == argv[ai + 2]
             IN  /\ _errors' =
                       IF MatchesNothing(arg)
                       THEN Append(_errors, [type |-> "UNRECOGNIZED_ARG", str |-> arg, count |-> 0])
                       ELSE IF MatchesPairKey(arg) /\ ai + 2 = Len(argv)
                       THEN Append(_errors, [type |-> "NO_VALUE_FOR_KEY", str |-> arg, count |-> 0])
                       ELSE _errors
                 /\ \A u \in 1..Len(_unary_args) : _unary_args_defined[u] => _unary_args_defined'[u]
                 /\ \A k \in 1..Len(_keyword_args) : _keyword_args_defined[k] => _keyword_args_defined'[k]
                 /\ (~MatchesNothing(arg) /\ containsSep(arg, _seps)) =>
                       \E k \in 1..Len(_keyword_args) :
                           _keyword_args_defined'[k] /\ _keyword_arg_values'[k] = ValueOf(arg)
                 /\ (MatchesPairKey(arg) /\ ai + 2 < Len(argv)) =>
                       \E k \in 1..Len(_keyword_args) :
                           _keyword_args_defined'[k] /\ _keyword_arg_values'[k] = argv[ai + 3]]_vars

\* C19 witness: with redefinitions switched off, "v" "v" "o=x" "o=x" was
\* parsed: "v" and "o" are defined and no error is recorded.
C19_Witness ==
    /\ pc = "parsing"
    /\ ~_redefinition_is_error
    /\ ai = 4
    /\ SubSeq(argv, 2, 5) = <<(<<"v">>), (<<"v">>), (<<"o", "=", "x">>), (<<"o", "=", "x">>)>>
    /\ \E u \in 1..Len(_unary_args) : _unary_args_defined[u]
    /\ \E k \in 1..Len(_keyword_args) : _keyword_args_defined[k] /\ _keyword_arg_values[k] = <<"x">>
    /\ _errors = <<>>

-----------------------------------------------------------------------------
\* C20: an argument with separator characters in it is split at the first
\* occurrence of the first character of the separator string, in the order of
\* the separator string, that occurs in it at all: the keyword is what comes
\* before that position and the value all that comes after it, other
\* separator characters included, also when one of them stands further left.
C20_SplitAtFirstConfiguredSeparator ==
    [][(pc = "parsing" /\ ai + 1 < Len(argv) /\ containsSep(argv[ai + 2], _seps))
          => LET arg == argv[ai + 2]
                 used == {c \in 1..Len(_seps) : \E q \in 1..Len(arg) : arg[q] = _seps[c]}
                 ci == CHOOSE c \in used : \A d \in used : c <= d
                 at == {q \in 1..Len(arg) : arg[q] = _seps[ci]}
                 p == CHOOSE q \in at : \A r \in at : q <= r
                 keyword == SubSeq(arg, 1, p - 1)
                 value == SubSeq(arg, p + 1, Len(arg))
                 keys == {k \in 1..Len(_keyword_args) :
                             _keyword_args[k] = keyword \/ _keyword_arg_abbrs[k] = keyword}
             IN  IF keys # {}
                 THEN /\ \E k \in keys : _keyword_args_defined'[k] /\ _keyword_arg_values'[k] = value
                      /\ \A ei \in 1..Len(_errors') : ei > Len(_errors) => _errors'[ei].type # "UNRECOGNIZED_ARG"
                 ELSE /\ _errors' = Append(_errors, [type |-> "UNRECOGNIZED_ARG", str |-> arg, count |-> 0])
                      /\ UNCHANGED <<_keyword_args_defined, _keyword_arg_values>>]_vars

\* C20 witness: with the separator string "=:" the argument "k:x=y" was split
\* at its "=", not at the ":" further left: the keyword "k:x" matched nothing,
\* keyword argument "k" is undefined and the argument is unrecognized.
C20_Witness ==
    /\ pc = "parsing"
    /\ _seps = <<"=", ":">>
    /\ ai = 1
    /\ argv[2] = <<"k", ":", "x", "=", "y">>
    /\ _keyword_args = <<(<<"k">>)>>
    /\ _keyword_args_defined = <<FALSE>>
    /\ _errors = <<[type |-> "UNRECOGNIZED_ARG", str |-> <<"k", ":", "x", "=", "y">>, count |-> 0]>>

-----------------------------------------------------------------------------
\* C21: the argument after the key of a pair is taken as that keyword
\* argument's value as it stands, whatever it is (a registered name or
\* abbreviation, an argument with a separator character): the keyword argument
\* is defined and holds it, no unary argument and no other keyword argument
\* changes, the only error the step can add or recount is the
\* RedefinitionOfKey of the key's keyword argument, and processArgs goes on
\* two arguments after the key.
C21_PairValueIsTakenVerbatim ==
    [][(pc = "parsing" /\ ai + 2 < Len(argv) /\ IsPairKey(argv[ai + 2]))
          => LET k == keywordNamed(argv[ai + 2])
             IN  /\ pc' = "parsing"
                 /\ ai' = ai + 2
                 /\ _keyword_args_defined'[k]
                 /\ _keyword_arg_values'[k] = argv[ai + 3]
                 /\ UNCHANGED _unary_args_defined
                 /\ \A j \in 1..Len(_keyword_args) :
                       j # k => /\ _keyword_args_defined'[j] = _keyword_args_defined[j]
                                /\ _keyword_arg_values'[j] = _keyword_arg_values[j]
                 /\ \A ei \in 1..Len(_errors') :
                       (ei > Len(_errors) \/ _errors'[ei] # _errors[ei])
                           => /\ _errors'[ei].type = "REDEFINITION_OF_KEY"
                              /\ _errors'[ei].str = _keyword_args[k]]_vars

=============================================================================
